---- MODULE Spec2Model ----
(***************************************************************************)
(* KanaKira font build (src/main.py): build_font synthesizes one composite *)
(* glyph per catalog entry with make_combined_glyph, derives the pruned    *)
(* character map and the liga rule set, corrects the ascent and saves.     *)
(*                                                                         *)
(* Abstractions, stated once:                                              *)
(*  - a source glyph is named by the codepoint (base font) or character    *)
(*    (label font) its cmap maps to it; an outline is kept as the list of  *)
(*    drawn parts together with its contour count and top extent;          *)
(*  - a scale factor is an exact rational <<num, den>>; int() truncates    *)
(*    toward zero;                                                         *)
(*  - hash(kana) is a function from strings to integers that the process   *)
(*    fixes at start-up (string hashing is seeded per process); each key   *)
(*    is hashed in one call only, so the model draws the value of a key    *)
(*    from a bounded range when that call is made and records it.          *)
(***************************************************************************)
EXTENDS Integers, Sequences, FiniteSets, TLC

VARIABLES
    catalog,        \* the four catalog groups (ROMAJI, YOUON_, SOKUON_, COMPLEX_)
    jp,             \* base source font: cmap subtables, hmtx, glyf, hhea.ascent
    romaji,         \* label source font: cmap, hmtx, glyf
    cfg,            \* config.json: scales, gap, ref_height, offsets
    hashOf,         \* hash() of this process, on the keys hashed so far
    pc,             \* position of build_font
    idx,            \* position in the catalog group being iterated
    glyf,           \* font["glyf"].glyphs: name -> glyph
    glyfKeys,       \* insertion order of font["glyf"].glyphs
    hmtx,           \* font["hmtx"].metrics: name -> advance width
    glyphOrder,     \* font.getGlyphOrder()
    cmap_map,       \* codepoint -> name of the single-character glyph
    youon_glyphs,   \* <<combo, name>> in insertion order
    sokuon_glyphs,
    complex_glyphs,
    cmap_tbl,       \* font["cmap"].tables after pruning
    feature_code,   \* rules returned by generate_liga_features
    gsub,           \* rules compiled into the font by addOpenTypeFeatures
    ascent,         \* font["hhea"].ascent
    last,           \* locals of the latest make_combined_glyph call
    failed,         \* stage whose exception was raised, "none" if none
    saved,          \* font.save() has written OUT_FONT
    earlier_run     \* what an earlier run of the program on these inputs built

vars == <<catalog, jp, romaji, cfg, hashOf, pc, idx, glyf, glyfKeys, hmtx,
          glyphOrder, cmap_map, youon_glyphs, sokuon_glyphs, complex_glyphs,
          cmap_tbl, feature_code, gsub, ascent, last, failed, saved,
          earlier_run>>

\* what no step of build_font writes: its inputs, and the output of a run
\* that ended before this process started
inputs_fixed == <<catalog, jp, romaji, cfg, earlier_run>>

-----------------------------------------------------------------------------
(* Bounds of the model *)

\* hash() takes the values -2 and 0 .. MaxHash
MaxHash == 0
\* at most this many catalog codepoints have no glyph in the base font
MaxMissing == 1

-----------------------------------------------------------------------------
(* Codepoints and the catalog excerpt *)

KI == 12461
SMALL_TSU == 12483
SMALL_YA == 12515
SMALL_YU == 12517

Codepoints == {KI, SMALL_TSU, SMALL_YA, SMALL_YU}

\* "?" stands for the glottal-stop label of the small tsu
LabelChars == {"K", "I", "Y", "A", "U", "?"}

Entry(k, r) == [kana |-> k, roma |-> r]

ROMAJI ==
    << Entry(<<KI>>, <<"K", "I">>),
       Entry(<<SMALL_TSU>>, <<"?">>),
       Entry(<<SMALL_YA>>, <<"Y", "A">>),
       Entry(<<SMALL_YU>>, <<"Y", "U">>) >>

YOUON_COMBINATIONS ==
    << Entry(<<KI, SMALL_YA>>, <<"K", "Y", "A">>),
       Entry(<<KI, SMALL_YU>>, <<"K", "Y", "U">>) >>

SOKUON_COMBINATIONS ==
    << Entry(<<SMALL_TSU, KI>>, <<"K", "K", "I">>) >>

COMPLEX_COMBINATIONS ==
    << Entry(<<SMALL_TSU, KI, SMALL_YA>>, <<"K", "K", "Y", "A">>) >>

-----------------------------------------------------------------------------
(* Sequence helpers *)

Range(s) == {s[i] : i \in DOMAIN s}

RECURSIVE SumSeq(_)
SumSeq(s) == IF s = <<>> THEN 0 ELSE s[1] + SumSeq(Tail(s))

RECURSIVE SelectIdx(_, _, _)
\* the subsequence of s at the positions not in drop, order kept
SelectIdx(s, drop, i) ==
    IF i > Len(s) THEN <<>>
    ELSE IF i \in drop THEN SelectIdx(s, drop, i + 1)
    ELSE <<s[i]>> \o SelectIdx(s, drop, i + 1)

Max(a, b) == IF a >= b THEN a ELSE b

SetMax(S) == CHOOSE m \in S : \A x \in S : x <= m

-----------------------------------------------------------------------------
(* Arithmetic of the geometry *)

\* int(x) of the rational n / d (d > 0): truncation toward zero
IntTrunc(n, d) == IF n >= 0 THEN n \div d ELSE -((-n) \div d)

\* int(v * scale)
IntScale(v, scale) == IntTrunc(v * scale[1], scale[2])

\* the pen's rounding of the transformed coordinate scale * y + dy:
\* floor(x + 0.5)
OtRound(y, scale, dy) == dy + ((2 * y * scale[1] + scale[2]) \div (2 * scale[2]))

-----------------------------------------------------------------------------
(* Glyph names *)

HexDigits == <<"0", "1", "2", "3", "4", "5", "6", "7",
               "8", "9", "A", "B", "C", "D", "E", "F">>

RECURSIVE HexOf(_)
\* upper-case hexadecimal digits of n >= 0
HexOf(n) == IF n < 16 THEN HexDigits[n + 1]
            ELSE HexOf(n \div 16) \o HexDigits[(n % 16) + 1]

RECURSIVE HexLen(_)
HexLen(n) == IF n < 16 THEN 1 ELSE 1 + HexLen(n \div 16)

RECURSIVE Zeros(_)
Zeros(k) == IF k <= 0 THEN "" ELSE "0" \o Zeros(k - 1)

\* f"{n:04X}": sign-aware zero padding to four characters
Fmt04X(n) ==
    IF n >= 0 THEN Zeros(4 - HexLen(n)) \o HexOf(n)
    ELSE "-" \o Zeros(3 - HexLen(-n)) \o HexOf(-n)

\* lines 184-192: the name of the glyph. For a multi-character key it is
\* made of the whole hash(kana); the reduced value cp of line 184 is not used.
DstName(kana, glyph_suffix) ==
    IF Len(kana) = 1
    THEN "kana_" \o Fmt04X(kana[1]) \o glyph_suffix
    ELSE "youon_" \o Fmt04X(hashOf'[kana]) \o glyph_suffix

-----------------------------------------------------------------------------
(* Source font access *)

\* cmap subtables getBestCmap prefers, best first
CmapPreferences == << <<3, 10>>, <<0, 6>>, <<0, 4>>, <<3, 1>>,
                      <<0, 3>>, <<0, 2>>, <<0, 1>>, <<0, 0>> >>

RECURSIVE BestOf(_, _)
\* index of the subtable getBestCmap returns, 0 when it returns None
BestOf(tables, k) ==
    IF k > Len(CmapPreferences) THEN 0
    ELSE LET hit == {i \in DOMAIN tables : tables[i].platEnc = CmapPreferences[k]}
         IN  IF hit # {} THEN CHOOSE i \in hit : \A j \in hit : i <= j
             ELSE BestOf(tables, k + 1)

\* font.getBestCmap() is not None
HasBestCmap(tables) == BestOf(tables, 1) # 0

\* font.getBestCmap(), when it is not None
getBestCmap(tables) == tables[BestOf(tables, 1)].cmap

\* glyph_metrics(font, gname): (advanceWidth, yMax or 0)
glyph_metrics(font, gname) ==
    << font.hmtx[gname],
       IF font.glyf[gname].numberOfContours # 0 THEN font.glyf[gname].yMax ELSE 0 >>

\* draw_scaled: the transformed outline of gname appended to the pen
draw_scaled(pen, src, font, gname, scale, dx, dy) ==
    Append(pen, [src |-> src, g |-> gname, dx |-> dx, dy |-> dy,
                 numberOfContours |-> font.glyf[gname].numberOfContours,
                 top |-> OtRound(font.glyf[gname].yMax, scale, dy)])

\* pen.glyph()
PenGlyph(pen) ==
    [parts |-> pen,
     numberOfContours |-> SumSeq([i \in DOMAIN pen |-> pen[i].numberOfContours])]

\* g.recalcBounds(glyf) followed by g.yMax: the top of the contoured parts
RecalcYMax(g) ==
    LET tops == {g.parts[i].top : i \in {j \in DOMAIN g.parts :
                                           g.parts[j].numberOfContours # 0}}
    IN  IF tops = {} THEN 0 ELSE SetMax(tops)

-----------------------------------------------------------------------------
(* make_combined_glyph *)

\* lines 186 and 191: the lookup jp.getBestCmap()[...] raises
\* (TypeError on None, KeyError on an unmapped codepoint)
LookupRaises(kana) ==
    \/ ~HasBestCmap(jp.tables)
    \/ kana[1] \notin DOMAIN getBestCmap(jp.tables)

RECURSIVE KanaWidths(_)
\* lines 207-214: (char_src, scaled_width) of the run's characters found in
\* the base font's cmap, in order
KanaWidths(kana) ==
    IF kana = <<>> THEN <<>>
    ELSE IF kana[1] \in DOMAIN getBestCmap(jp.tables)
         THEN LET char_src == getBestCmap(jp.tables)[kana[1]]
                  aw       == glyph_metrics(jp, char_src)[1]
              IN  << <<char_src, IntScale(aw, cfg.KANA_SCALE)>> >>
                      \o KanaWidths(Tail(kana))
         ELSE KanaWidths(Tail(kana))

RECURSIVE DrawKana(_, _, _)
\* lines 217-220: each measured character drawn at the accumulating x_offset
DrawKana(pen, kana_widths, x_offset) ==
    IF kana_widths = <<>> THEN pen
    ELSE DrawKana(draw_scaled(pen, "jp", jp, kana_widths[1][1], cfg.KANA_SCALE,
                              x_offset, cfg.VERT_OFFSET),
                  Tail(kana_widths), x_offset + kana_widths[1][2])

\* lines 196-222: aw_k_scaled
BaseRunWidth(kana) ==
    IF Len(kana) = 1
    THEN IntScale(glyph_metrics(jp, getBestCmap(jp.tables)[kana[1]])[1], cfg.KANA_SCALE)
    ELSE SumSeq([i \in DOMAIN KanaWidths(kana) |-> KanaWidths(kana)[i][2]])

\* lines 196-220: the pen after the base run is drawn
BaseRunPen(kana) ==
    IF Len(kana) = 1
    THEN draw_scaled(<<>>, "jp", jp, getBestCmap(jp.tables)[kana[1]], cfg.KANA_SCALE,
                     cfg.HORIZ_OFFSET, cfg.VERT_OFFSET)
    ELSE DrawKana(<<>>, KanaWidths(kana), cfg.HORIZ_OFFSET)

RECURSIVE RomajiWidth(_)
\* lines 225-229: romaji_width, characters outside the label font skipped
RomajiWidth(romaji_text) ==
    IF romaji_text = <<>> THEN 0
    ELSE (IF romaji_text[1] \in DOMAIN romaji.cmap
          THEN IntScale(glyph_metrics(romaji, romaji.cmap[romaji_text[1]])[1],
                        cfg.ROMAJI_SCALE)
          ELSE 0) + RomajiWidth(Tail(romaji_text))

\* the label centred without the clamp at the base run's start
XStartUnclamped(aw_k_scaled, romaji_width) ==
    (aw_k_scaled - romaji_width) \div 2 + cfg.HORIZ_OFFSET

\* line 231
XStart(aw_k_scaled, romaji_width) ==
    Max((aw_k_scaled - romaji_width) \div 2, 0) + cfg.HORIZ_OFFSET

\* line 232
YStart == IntScale(cfg.REF_HEIGHT, cfg.KANA_SCALE) + cfg.GAP + cfg.VERT_OFFSET

RECURSIVE DrawRomaji(_, _, _, _)
\* lines 235-241
DrawRomaji(pen, romaji_text, x_cursor, y_start) ==
    IF romaji_text = <<>> THEN pen
    ELSE IF romaji_text[1] \in DOMAIN romaji.cmap
         THEN LET rname == romaji.cmap[romaji_text[1]]
                  aw    == glyph_metrics(romaji, rname)[1]
              IN  DrawRomaji(draw_scaled(pen, "romaji", romaji, rname,
                                         cfg.ROMAJI_SCALE, x_cursor, y_start),
                             Tail(romaji_text),
                             x_cursor + IntScale(aw, cfg.ROMAJI_SCALE), y_start)
         ELSE DrawRomaji(pen, Tail(romaji_text), x_cursor, y_start)

\* the advance box widened to a label that overhangs the base run
StoredWidthWithLabel(aw_k_scaled, romaji_width) == Max(aw_k_scaled, romaji_width)

\* lines 243-245: the width stored in hmtx under dst_name
StoredWidth(aw_k_scaled, romaji_width) == aw_k_scaled

\* the glyph stored under the name without the group's suffix
StoreNameNoSuffix(kana, glyph_suffix) == DstName(kana, "")

\* the name make_combined_glyph stores the glyph under (line 244); the name
\* it returns is DstName (line 246)
StoreName(kana, glyph_suffix) == DstName(kana, glyph_suffix)

\* make_combined_glyph(jp, romaji, kana, romaji_text, dst_font, glyph_suffix)
\* for a call that does not raise: its locals, the glyph and the width stored
make_combined_glyph(kana, romaji_text, glyph_suffix) ==
    LET aw_k_scaled  == BaseRunWidth(kana)
        romaji_width == RomajiWidth(romaji_text)
        x_start      == XStart(aw_k_scaled, romaji_width)
        pen          == DrawRomaji(BaseRunPen(kana), romaji_text, x_start, YStart)
    IN  [kana |-> kana, romaji_text |-> romaji_text,
         dst_name |-> DstName(kana, glyph_suffix),
         store_name |-> StoreName(kana, glyph_suffix),
         aw_k_scaled |-> aw_k_scaled, romaji_width |-> romaji_width,
         x_start |-> x_start, y_start |-> YStart,
         glyph |-> PenGlyph(pen),
         width |-> StoredWidth(aw_k_scaled, romaji_width)]

-----------------------------------------------------------------------------
(* generate_liga_features *)

\* d[k] = v on an insertion-ordered dict kept as a function
DictSet(d, k, v) == [x \in DOMAIN d \cup {k} |-> IF x = k THEN v ELSE d[x]]

\* keys of a dict in insertion order, after d[k] = v
KeysAfter(keys, k) == IF k \in Range(keys) THEN keys ELSE Append(keys, k)

RECURSIVE LigaRulesStopAtUnmapped(_, _, _)
\* the loop left at the first combination with an unmapped codepoint
LigaRulesStopAtUnmapped(cm, items, n) ==
    IF items = <<>> THEN <<>>
    ELSE IF \A i \in 1..n : items[1][1][i] \in DOMAIN cm
         THEN << [inputs |-> [i \in 1..n |-> cm[items[1][1][i]]], by |-> items[1][2]] >>
                 \o LigaRulesStopAtUnmapped(cm, Tail(items), n)
         ELSE <<>>

RECURSIVE LigaRules(_, _, _)
\* lines 261-269, 272-279, 282-289: one loop over a group's (combo, glyph_name)
\* items, n the number of characters the loop unpacks; a rule is appended
\* when every one of the n codepoints is a key of cmap_map
LigaRules(cm, items, n) ==
    IF items = <<>> THEN <<>>
    ELSE LET combo      == items[1][1]
             glyph_name == items[1][2]
         IN  (IF \A i \in 1..n : combo[i] \in DOMAIN cm
              THEN << [inputs |-> [i \in 1..n |-> cm[combo[i]]], by |-> glyph_name] >>
              ELSE <<>>) \o LigaRules(cm, Tail(items), n)

\* lines 262, 273, 283: indexing a combo shorter than the loop expects raises
LigaRaises(youon, sokuon, complex) ==
    \/ \E i \in DOMAIN complex : Len(complex[i][1]) < 3
    \/ \E i \in DOMAIN youon : Len(youon[i][1]) < 2
    \/ \E i \in DOMAIN sokuon : Len(sokuon[i][1]) < 2

\* the two-character loops run before the three-character loop
generate_liga_features_shortest_first(cm, youon, sokuon, complex) ==
    LigaRules(cm, youon, 2) \o LigaRules(cm, sokuon, 2) \o LigaRules(cm, complex, 3)

\* the "sub ... by ...;" lines of the feature, in the order they are appended
generate_liga_features(cm, youon, sokuon, complex) ==
    LigaRules(cm, complex, 3) \o LigaRules(cm, youon, 2) \o LigaRules(cm, sokuon, 2)

-----------------------------------------------------------------------------
(* build_font *)

Phases == <<"basic", "youon", "sokuon", "complex">>

Group(cat, p) ==
    CASE p = "basic"   -> cat.ROMAJI
      [] p = "youon"   -> cat.YOUON_COMBINATIONS
      [] p = "sokuon"  -> cat.SOKUON_COMBINATIONS
      [] p = "complex" -> cat.COMPLEX_COMBINATIONS

RECURSIVE FirstFrom(_, _)
\* the first loop from the k-th on whose group is not empty, then line 375
FirstFrom(cat, k) ==
    IF k > Len(Phases) THEN <<"cmap", 0>>
    ELSE IF Group(cat, Phases[k]) # <<>> THEN <<Phases[k], 1>>
    ELSE FirstFrom(cat, k + 1)

PhaseIndex(p) == CHOOSE k \in DOMAIN Phases : Phases[k] = p

\* the position after the i-th iteration of loop p
After(p, i) ==
    IF i < Len(Group(catalog, p)) THEN <<p, i + 1>>
    ELSE FirstFrom(catalog, PhaseIndex(p) + 1)

\* the values hash() returns in the model: a negative one (hash() never
\* returns -1) and the non-negative ones up to MaxHash
HashValues == {-2} \cup (0..MaxHash)

NoCall == [kana |-> <<>>]

\* the exception caught and reported like the one of the liga stage
AbortSwallowed(stage) ==
    /\ pc' = "save"
    /\ failed' = stage
    /\ UNCHANGED <<idx, glyf, glyfKeys, hmtx, glyphOrder, cmap_map, youon_glyphs,
                   sokuon_glyphs, complex_glyphs, cmap_tbl, feature_code, gsub,
                   ascent, last, saved>>

\* an exception of the stage leaves build_font: no later line runs
Abort(stage) ==
    /\ pc' = "aborted"
    /\ failed' = stage
    /\ UNCHANGED <<idx, glyf, glyfKeys, hmtx, glyphOrder, cmap_map, youon_glyphs,
                   sokuon_glyphs, complex_glyphs, cmap_tbl, feature_code, gsub,
                   ascent, last, saved>>

\* lines 244-245 and 348: the call's glyph and width stored, its name appended
Store(r) ==
    /\ glyf' = DictSet(glyf, r.store_name, r.glyph)
    /\ glyfKeys' = KeysAfter(glyfKeys, r.store_name)
    /\ hmtx' = DictSet(hmtx, r.store_name, r.width)
    /\ glyphOrder' = Append(glyphOrder, r.dst_name)
    /\ last' = r

\* lines 346-349: one iteration over ROMAJI.items()
BuildBasic ==
    /\ pc = "basic"
    /\ LET e == catalog.ROMAJI[idx]
       IN  /\ hashOf' = hashOf
           /\ IF LookupRaises(e.kana)
              THEN Abort("synthesis")
              ELSE LET r == make_combined_glyph(e.kana, e.roma, "")
                   IN  /\ Store(r)
                       /\ cmap_map' = DictSet(cmap_map, e.kana[1], r.dst_name)
                       /\ pc' = After("basic", idx)[1]
                       /\ idx' = After("basic", idx)[2]
                       /\ UNCHANGED <<youon_glyphs, sokuon_glyphs, complex_glyphs,
                                      cmap_tbl, feature_code, gsub, ascent, saved,
                                      failed>>
    /\ UNCHANGED inputs_fixed

\* one iteration of a loop over a group of combinations (lines 354-357,
\* 362-365, 370-373): hash(kana) is evaluated, then the glyph is made
BuildCombo(p, glyph_suffix, h) ==
    /\ pc = p
    /\ LET e == Group(catalog, p)[idx]
       IN  /\ hashOf' = DictSet(hashOf, e.kana, h)
           /\ IF LookupRaises(e.kana)
              THEN Abort("synthesis")
              ELSE LET r == make_combined_glyph(e.kana, e.roma, glyph_suffix)
                   IN  /\ Store(r)
                       /\ youon_glyphs' = IF p = "youon"
                             THEN Append(youon_glyphs, <<e.kana, r.dst_name>>)
                             ELSE youon_glyphs
                       /\ sokuon_glyphs' = IF p = "sokuon"
                             THEN Append(sokuon_glyphs, <<e.kana, r.dst_name>>)
                             ELSE sokuon_glyphs
                       /\ complex_glyphs' = IF p = "complex"
                             THEN Append(complex_glyphs, <<e.kana, r.dst_name>>)
                             ELSE complex_glyphs
                       /\ pc' = After(p, idx)[1]
                       /\ idx' = After(p, idx)[2]
                       /\ UNCHANGED <<cmap_map, cmap_tbl, feature_code, gsub, ascent,
                                      saved, failed>>
    /\ UNCHANGED inputs_fixed

BuildYouon == \E h \in HashValues : BuildCombo("youon", "_youon", h)

BuildSokuon == \E h \in HashValues : BuildCombo("sokuon", "_sokuon", h)

BuildComplex == \E h \in HashValues : BuildCombo("complex", "_complex", h)

\* line 383: a subtable pruned to the codepoints that have a synthesized glyph
PruneSub(sub, cm) ==
    [platEnc |-> sub.platEnc,
     cmap |-> [cp \in DOMAIN sub.cmap \cap DOMAIN cm |-> cm[cp]]]

\* only the first subtable pruned and kept
PruneTablesFirstOnly(tables, cm) ==
    IF tables = <<>> THEN <<>>
    ELSE IF DOMAIN PruneSub(tables[1], cm).cmap = {} THEN <<>>
    ELSE << PruneSub(tables[1], cm) >>

RECURSIVE PruneTables(_, _)
\* lines 381-385: every subtable pruned, the empty ones removed
PruneTables(tables, cm) ==
    IF tables = <<>> THEN <<>>
    ELSE LET sub == PruneSub(tables[1], cm)
         IN  (IF DOMAIN sub.cmap = {} THEN <<>> ELSE <<sub>>)
                 \o PruneTables(Tail(tables), cm)

\* lines 375-386: glyph order synced with the glyph dict, cmap built
BuildCmap ==
    /\ pc = "cmap"
    /\ glyphOrder' = glyfKeys
    /\ cmap_tbl' = PruneTables(jp.tables, cmap_map)
    /\ pc' = "liga"
    /\ UNCHANGED <<inputs_fixed, hashOf, idx, glyf, glyfKeys, hmtx, cmap_map,
                   youon_glyphs, sokuon_glyphs, complex_glyphs, feature_code, gsub,
                   ascent, last, failed, saved>>

\* lines 388-398: the rules are generated and compiled into the font; an
\* exception of either step is caught, reported, and the build goes on
AddFeatures ==
    /\ pc = "liga"
    /\ \E compiled \in BOOLEAN :
         IF LigaRaises(youon_glyphs, sokuon_glyphs, complex_glyphs)
         THEN /\ feature_code' = feature_code
              /\ gsub' = gsub
              /\ failed' = "liga"
         ELSE /\ feature_code' = generate_liga_features(cmap_map, youon_glyphs,
                                                        sokuon_glyphs, complex_glyphs)
              /\ gsub' = IF compiled THEN feature_code' ELSE gsub
              /\ failed' = IF compiled THEN failed ELSE "liga"
    /\ pc' = "ascender"
    /\ UNCHANGED <<inputs_fixed, hashOf, idx, glyf, glyfKeys, hmtx, glyphOrder,
                   cmap_map, youon_glyphs, sokuon_glyphs, complex_glyphs, cmap_tbl,
                   ascent, last, saved>>

\* line 406: g.yMax of the glyphs with contours
Tops == {RecalcYMax(glyf[n]) : n \in {m \in DOMAIN glyf : glyf[m].numberOfContours # 0}}

\* the margin added to the highest top (line 408)
Margin == 20

\* the ascent set to the highest top plus the margin, whatever it was
FixedAscentAlwaysNeed(top, asc) == top + Margin

\* lines 408-411: the corrected hhea.ascent
FixedAscent(top, asc) ==
    LET need == top + Margin
    IN  IF need > asc THEN asc + (need - asc) ELSE asc

\* lines 400-413: bounds recalculated, ascent raised to the highest top plus
\* the margin; max() of no glyph raises
AscenderFix ==
    /\ pc = "ascender"
    /\ IF Tops = {}
       THEN Abort("ascender")
       ELSE /\ ascent' = FixedAscent(SetMax(Tops), ascent)
            /\ pc' = "save"
            /\ UNCHANGED <<idx, glyf, glyfKeys, hmtx, glyphOrder, cmap_map,
                           youon_glyphs, sokuon_glyphs, complex_glyphs, cmap_tbl,
                           feature_code, gsub, last, failed, saved>>
    /\ UNCHANGED <<inputs_fixed, hashOf>>

\* lines 415-491: counts, names, font.save
Save ==
    /\ pc = "save"
    /\ saved' = TRUE
    /\ pc' = "done"
    /\ UNCHANGED <<inputs_fixed, hashOf, idx, glyf, glyfKeys, hmtx, glyphOrder,
                   cmap_map, youon_glyphs, sokuon_glyphs, complex_glyphs, cmap_tbl,
                   feature_code, gsub, ascent, last, failed>>

Next ==
    \/ BuildBasic
    \/ BuildYouon
    \/ BuildSokuon
    \/ BuildComplex
    \/ BuildCmap
    \/ AddFeatures
    \/ AscenderFix
    \/ Save

-----------------------------------------------------------------------------
(* Inputs: catalogs, source fonts, configurations *)

Prefixes(s) == {SubSeq(s, 1, n) : n \in 0..Len(s)}

\* the catalog excerpt, and what is left of it when one single-character
\* entry is taken away and the combination groups are cut short
Catalogs ==
    { [ROMAJI |-> SelectIdx(ROMAJI, drop, 1),
       YOUON_COMBINATIONS |-> y, SOKUON_COMBINATIONS |-> k,
       COMPLEX_COMBINATIONS |-> c] :
        drop \in {d \in SUBSET DOMAIN ROMAJI : Cardinality(d) <= 1},
        y \in Prefixes(YOUON_COMBINATIONS),
        k \in Prefixes(SOKUON_COMBINATIONS),
        c \in Prefixes(COMPLEX_COMBINATIONS) }

FullCatalog ==
    [ROMAJI |-> ROMAJI, YOUON_COMBINATIONS |-> YOUON_COMBINATIONS,
     SOKUON_COMBINATIONS |-> SOKUON_COMBINATIONS,
     COMPLEX_COMBINATIONS |-> COMPLEX_COMBINATIONS]

\* the excerpt, and the excerpt without the single-character entry of the
\* small ya that two of its combinations end with
MetricsCatalogs ==
    { FullCatalog, [FullCatalog EXCEPT !.ROMAJI = SelectIdx(ROMAJI, {3}, 1)] }

\* a source cmap maps a codepoint to the glyph named after it
IdCmap(S) == [cp \in S |-> cp]

\* the sets of codepoints a base font can cover
Coverages == {Codepoints \ m : m \in {x \in SUBSET Codepoints : Cardinality(x) <= MaxMissing}}

\* cmap table layouts: one Windows BMP subtable; a Macintosh subtable without
\* kana, a BMP and a full-repertoire subtable; a Macintosh subtable only
Layouts(S) ==
    { << [platEnc |-> <<3, 1>>, cmap |-> IdCmap(S)] >>,
      << [platEnc |-> <<1, 0>>, cmap |-> IdCmap({})],
         [platEnc |-> <<3, 1>>, cmap |-> IdCmap(S \ {SMALL_YU})],
         [platEnc |-> <<3, 10>>, cmap |-> IdCmap(S)] >> }

MacOnly(S) == << [platEnc |-> <<1, 0>>, cmap |-> IdCmap(S)] >>

\* advance widths of the base font: full-width throughout, or proportional
JpWidths ==
    { [cp \in Codepoints |-> 1000],
      [cp \in Codepoints |-> IF cp = KI THEN 600
                             ELSE IF cp = SMALL_TSU THEN 1000 ELSE 851] }

\* outlines of the base font: kana with contours, or a blank font
JpOutlines(blank) ==
    [cp \in Codepoints |->
        [numberOfContours |-> IF blank THEN 0 ELSE 2,
         yMax |-> IF blank THEN 0 ELSE IF cp = KI THEN 880 ELSE 655]]

JpFont(tables, widths, blank, asc) ==
    [tables |-> tables, hmtx |-> widths, glyf |-> JpOutlines(blank),
     notdef |-> [aw |-> 1000,
                 numberOfContours |-> IF blank THEN 0 ELSE 2,
                 yMax |-> IF blank THEN 0 ELSE 880],
     ascent |-> asc]

InheritedAscents == {880, 1160}

\* base fonts of the build-level specification: coverage and layout vary
BuildJpFonts ==
    { JpFont(t, [cp \in Codepoints |-> 1000], FALSE, 880) :
        t \in UNION {Layouts(S) : S \in Coverages} \cup {MacOnly(Codepoints)} }

\* base fonts of the metrics-level specification: coverage, widths, ascent
MetricsJpFonts ==
    { JpFont(<< [platEnc |-> <<3, 1>>, cmap |-> IdCmap(S)] >>, w, FALSE, a) :
        S \in Coverages, w \in JpWidths, a \in InheritedAscents }

\* a base font whose glyphs have no contours
BlankJpFont ==
    JpFont(<< [platEnc |-> <<3, 1>>, cmap |-> IdCmap(Codepoints)] >>,
           [cp \in Codepoints |-> 1000], TRUE, 880)

\* label fonts: all label characters, or all but the glottal stop
RomajiFont(S) ==
    [cmap |-> [ch \in S |-> ch],
     hmtx |-> [ch \in S |-> 251],
     glyf |-> [ch \in S |-> [numberOfContours |-> 1, yMax |-> 714]]]

RomajiFonts == {RomajiFont(LabelChars), RomajiFont(LabelChars \ {"?"})}

\* the pairs of source fonts: every base font with every label font, and the
\* blank base font with a label font that has none of the label characters
MetricsFontPairs ==
    (MetricsJpFonts \X RomajiFonts) \cup {<<BlankJpFont, RomajiFont({})>>}

Config(ks, rs, gap, ref, v, h) ==
    [KANA_SCALE |-> ks, ROMAJI_SCALE |-> rs, GAP |-> gap, REF_HEIGHT |-> ref,
     VERT_OFFSET |-> v, HORIZ_OFFSET |-> h]

Configs == { Config(<<7, 10>>, <<1, 2>>, 50, 700, 0, 0),
             Config(<<3, 10>>, <<1, 1>>, 30, 880, 100, 30) }

\* lines 300-345: fonts loaded, blank font with .notdef, empty dicts
InitWith(cat, j, r, c) ==
    /\ catalog = cat
    /\ jp = j
    /\ romaji = r
    /\ cfg = c
    /\ hashOf = <<>>
    /\ pc = FirstFrom(cat, 1)[1]
    /\ idx = FirstFrom(cat, 1)[2]
    /\ glyf = [n \in {".notdef"} |->
                 [parts |-> << [src |-> "notdef", g |-> ".notdef", dx |-> 0, dy |-> 0,
                                numberOfContours |-> j.notdef.numberOfContours,
                                top |-> j.notdef.yMax] >>,
                  numberOfContours |-> j.notdef.numberOfContours]]
    /\ glyfKeys = <<".notdef">>
    /\ hmtx = [n \in {".notdef"} |-> j.notdef.aw]
    /\ glyphOrder = <<".notdef">>
    /\ cmap_map = <<>>
    /\ youon_glyphs = <<>>
    /\ sokuon_glyphs = <<>>
    /\ complex_glyphs = <<>>
    /\ cmap_tbl = <<>>
    /\ feature_code = <<>>
    /\ gsub = <<>>
    /\ ascent = j.ascent
    /\ last = NoCall
    /\ failed = "none"
    /\ saved = FALSE

\* no run of the program has ended yet
NoEarlierRun == <<>>

\* every catalog, base fonts of varying coverage and cmap layout
Init ==
    /\ \E cat \in Catalogs, j \in BuildJpFonts :
          InitWith(cat, j, RomajiFont(LabelChars \ {"?"}),
                   Config(<<7, 10>>, <<1, 2>>, 50, 700, 0, 0))
    /\ earlier_run = NoEarlierRun

Spec == Init /\ [][Next]_vars

\* the catalog excerpt, base and label fonts of varying metrics and coverage,
\* every configuration
InitMetrics ==
    /\ \E cat \in MetricsCatalogs, f \in MetricsFontPairs, c \in Configs :
          InitWith(cat, f[1], f[2], c)
    /\ earlier_run = NoEarlierRun

SpecMetrics == InitMetrics /\ [][Next]_vars

\* what a finished run leaves in the output font: the name given to every
\* catalog entry, the glyph order, the character map, the liga rules
Output ==
    [cmap_map |-> cmap_map,
     items |-> youon_glyphs \o sokuon_glyphs \o complex_glyphs,
     glyphOrder |-> glyphOrder,
     cmap |-> cmap_tbl,
     rules |-> feature_code]

\* lines 497-498, once more: the program is started again on the same source
\* fonts, catalog and configuration after a run has saved its font. The new
\* process starts from the state of lines 300-345 and with a hash() of its own.
Rerun ==
    /\ pc = "done"
    /\ earlier_run = NoEarlierRun
    /\ earlier_run' = <<Output>>
    /\ UNCHANGED <<catalog, jp, romaji, cfg>>
    /\ hashOf' = <<>>
    /\ pc' = FirstFrom(catalog, 1)[1]
    /\ idx' = FirstFrom(catalog, 1)[2]
    /\ glyf' = [n \in {".notdef"} |->
                  [parts |-> << [src |-> "notdef", g |-> ".notdef", dx |-> 0, dy |-> 0,
                                 numberOfContours |-> jp.notdef.numberOfContours,
                                 top |-> jp.notdef.yMax] >>,
                   numberOfContours |-> jp.notdef.numberOfContours]]
    /\ glyfKeys' = <<".notdef">>
    /\ hmtx' = [n \in {".notdef"} |-> jp.notdef.aw]
    /\ glyphOrder' = <<".notdef">>
    /\ cmap_map' = <<>>
    /\ youon_glyphs' = <<>>
    /\ sokuon_glyphs' = <<>>
    /\ complex_glyphs' = <<>>
    /\ cmap_tbl' = <<>>
    /\ feature_code' = <<>>
    /\ gsub' = <<>>
    /\ ascent' = jp.ascent
    /\ last' = NoCall
    /\ failed' = "none"
    /\ saved' = FALSE

NextRuns ==
    \/ Next
    \/ Rerun

\* the catalog excerpt, a base font that covers it in either cmap layout
InitRuns ==
    /\ \E t \in Layouts(Codepoints) :
          InitWith(FullCatalog, JpFont(t, [cp \in Codepoints |-> 1000], FALSE, 880),
                   RomajiFont(LabelChars \ {"?"}),
                   Config(<<7, 10>>, <<1, 2>>, 50, 700, 0, 0))
    /\ earlier_run = NoEarlierRun

SpecRuns == InitRuns /\ [][NextRuns]_vars

-----------------------------------------------------------------------------
(* Properties of make_combined_glyph *)

\* a call of make_combined_glyph has returned
Called == last.kana # <<>>

BaseParts(g) == SelectSeq(g.parts, LAMBDA q : q.src = "jp")

LabelParts(g) == SelectSeq(g.parts, LAMBDA q : q.src = "romaji")

\* the scaled advance widths of the run's members, summed over the members
\* that have a glyph in the base font
BaseMembersWidth(kana) ==
    SumSeq([i \in DOMAIN kana |->
              IF kana[i] \in DOMAIN getBestCmap(jp.tables)
              THEN IntScale(jp.hmtx[getBestCmap(jp.tables)[kana[i]]], cfg.KANA_SCALE)
              ELSE 0])

\* the scaled advance widths of the label's characters, summed over the
\* characters the label font has
LabelWidth(text) ==
    SumSeq([i \in DOMAIN text |->
              IF text[i] \in DOMAIN romaji.cmap
              THEN IntScale(romaji.hmtx[romaji.cmap[text[i]]], cfg.ROMAJI_SCALE)
              ELSE 0])

\* C1: the advance width stored for the glyph a call synthesizes is the sum
\* of int(source advance width * base scale) over the members of its base
\* run (those that have a source glyph to take a width from); the label's
\* width is no part of it, whether the label is narrower or wider than the run.
C1_AdvanceWidthIsBaseRunSum ==
    Called =>
        /\ last.dst_name \in DOMAIN hmtx
        /\ hmtx[last.dst_name] = BaseMembersWidth(last.kana)

\* a three-character run, every member in the base font, with a label wider
\* than the run, has been synthesized
C1_Witness ==
    /\ Called
    /\ Len(last.kana) = 3
    /\ \A i \in DOMAIN last.kana : last.kana[i] \in DOMAIN getBestCmap(jp.tables)
    /\ LabelWidth(last.romaji_text) > BaseMembersWidth(last.kana)
    /\ hmtx[last.dst_name] = BaseMembersWidth(last.kana)

\* C2: the label run starts max((baseRunWidth - labelWidth) / 2, 0) right of
\* the base run's start, the division rounded down: half the difference when
\* the label is narrower than the base run, never a negative distance, and
\* exactly the base run's start when the label is at least as wide.
C2_LabelCentredAndClamped ==
    Called =>
        LET g  == glyf[last.dst_name]
            B  == hmtx[last.dst_name]
            L  == LabelWidth(last.romaji_text)
            base_run_start == BaseParts(g)[1].dx
            d  == last.x_start - base_run_start
        IN  /\ BaseParts(g) # <<>>
            /\ LabelParts(g) # <<>> => LabelParts(g)[1].dx = last.x_start
            /\ d >= 0
            /\ L < B => d = (B - L) \div 2
            /\ L >= B => d = 0

\* a drawn label narrower than its base run by an odd number of units
C2_Witness ==
    /\ Called
    /\ LabelParts(glyf[last.dst_name]) # <<>>
    /\ LabelWidth(last.romaji_text) < hmtx[last.dst_name]
    /\ (hmtx[last.dst_name] - LabelWidth(last.romaji_text)) % 2 = 1
    /\ LabelParts(glyf[last.dst_name])[1].dx - BaseParts(glyf[last.dst_name])[1].dx
          = (hmtx[last.dst_name] - LabelWidth(last.romaji_text)) \div 2

\* C10: a glyph is synthesized only when every codepoint of its base run, at
\* every position, has a glyph in the base font; its outline holds one base
\* part per member of the run, in order, and no member is skipped.
C10_NoBaseMemberSkipped ==
    Called =>
        LET bp == BaseParts(glyf[last.dst_name])
        IN  /\ \A i \in DOMAIN last.kana : last.kana[i] \in DOMAIN getBestCmap(jp.tables)
            /\ Len(bp) = Len(last.kana)
            /\ \A i \in DOMAIN bp : bp[i].g = last.kana[i]

-----------------------------------------------------------------------------
(* Properties of the build *)

\* the (combo, glyph name) items of the three combination groups
AllItems == youon_glyphs \o sokuon_glyphs \o complex_glyphs

\* the glyph synthesis loops are over
Synthesized == pc \in {"cmap", "liga", "ascender", "save", "done"}

\* generate_liga_features has returned
LigaDone == pc \in {"ascender", "save", "done"}

\* the character map a consumer of the output font reads
CharMap == IF HasBestCmap(cmap_tbl) THEN getBestCmap(cmap_tbl) ELSE <<>>

CatalogSize ==
    Len(catalog.ROMAJI) + Len(catalog.YOUON_COMBINATIONS)
        + Len(catalog.SOKUON_COMBINATIONS) + Len(catalog.COMPLEX_COMBINATIONS)

\* C3: once every entry is synthesized, any two distinct catalog entries have
\* distinct glyph names, in and across the four groups, and the glyph table
\* holds one glyph per catalog entry plus .notdef.
C3_NoTwoGlyphsShareName ==
    Synthesized =>
        /\ \A i, j \in DOMAIN AllItems : i # j => AllItems[i][2] # AllItems[j][2]
        /\ \A c, d \in DOMAIN cmap_map : c # d => cmap_map[c] # cmap_map[d]
        /\ \A c \in DOMAIN cmap_map, i \in DOMAIN AllItems : cmap_map[c] # AllItems[i][2]
        /\ Cardinality(DOMAIN glyf) = CatalogSize + 1

IsPrefix(a, b) == Len(a) <= Len(b) /\ \A i \in DOMAIN a : a[i] = b[i]

\* the rule a first-match engine applies at the head of text: the first
\* rule, in the emitted order, whose input sequence the text starts with
FirstMatch(rules, text) ==
    CHOOSE k \in DOMAIN rules :
        /\ IsPrefix(rules[k].inputs, text)
        /\ \A m \in DOMAIN rules : IsPrefix(rules[m].inputs, text) => k <= m

\* C4: in the emitted rule set every three-character rule stands before every
\* two-character rule, so on a text that starts with the input of a
\* three-character rule the first matching rule is a three-character rule.
C4_ThreeBeforeTwo ==
    /\ \A i, j \in DOMAIN feature_code :
          (Len(feature_code[i].inputs) = 3 /\ Len(feature_code[j].inputs) = 2) => i < j
    /\ \A i \in DOMAIN feature_code :
          Len(feature_code[i].inputs) = 3 =>
              Len(feature_code[FirstMatch(feature_code, feature_code[i].inputs)].inputs) = 3

\* a completed build whose rule set holds a three-character rule and a
\* two-character rule on the same first two glyphs
C4_Witness ==
    /\ pc = "done"
    /\ \E i, j \in DOMAIN feature_code :
          /\ Len(feature_code[i].inputs) = 3
          /\ Len(feature_code[j].inputs) = 2
          /\ IsPrefix(feature_code[j].inputs, feature_code[i].inputs)

\* the rule of a combination, when each of its codepoints is in cm
RuleOf(item, cm) ==
    [inputs |-> [i \in DOMAIN item[1] |-> cm[item[1][i]]], by |-> item[2]]

Mappable(item) == \A i \in DOMAIN item[1] : item[1][i] \in DOMAIN CharMap

\* C5: the rule of a two- or three-character entry is in the emitted rule set
\* exactly when every codepoint of the entry is in the final character map;
\* every emitted rule is the rule of such an entry; and the glyph of an entry
\* whose rule is dropped is in the glyph table all the same.
C5_RuleEmittedIffMapped ==
    LigaDone =>
        /\ \A k \in DOMAIN feature_code :
              \E i \in DOMAIN AllItems :
                  Mappable(AllItems[i]) /\ feature_code[k] = RuleOf(AllItems[i], CharMap)
        /\ \A i \in DOMAIN AllItems :
              /\ Mappable(AllItems[i]) =>
                    \E k \in DOMAIN feature_code : feature_code[k] = RuleOf(AllItems[i], CharMap)
              /\ AllItems[i][2] \in DOMAIN glyf

\* a completed build that dropped the rule of its first two-character entry,
\* whose glyph is in the table, and emitted the rule of a later one
C5_Witness ==
    /\ pc = "done"
    /\ saved
    /\ Len(youon_glyphs) = 2
    /\ ~Mappable(youon_glyphs[1])
    /\ youon_glyphs[1][2] \in DOMAIN glyf
    /\ Mappable(youon_glyphs[2])
    /\ \E k \in DOMAIN feature_code : feature_code[k] = RuleOf(youon_glyphs[2], CharMap)

\* the names of the glyphs of the multi-character combinations
ComboNames == {AllItems[i][2] : i \in DOMAIN AllItems}

\* C6: after a completed build the character map has an entry for the
\* codepoint of every single-character catalog entry, which maps to the glyph
\* synthesized from that codepoint alone, and no subtable of the character
\* map has an entry that maps to the glyph of a multi-character combination.
C6_CharMapHoldsSinglesOnly ==
    pc = "done" =>
        /\ \A i \in DOMAIN catalog.ROMAJI :
              LET cp == catalog.ROMAJI[i].kana[1]
              IN  /\ cp \in DOMAIN CharMap
                  /\ CharMap[cp] \in DOMAIN glyf
                  /\ Len(BaseParts(glyf[CharMap[cp]])) = 1
                  /\ BaseParts(glyf[CharMap[cp]])[1].g = cp
        /\ \A t \in DOMAIN cmap_tbl : \A cp \in DOMAIN cmap_tbl[t].cmap :
              cmap_tbl[t].cmap[cp] \notin ComboNames

\* a completed build with single-character entries, combinations of every
\* group, and a source character map of several subtables
C6_Witness ==
    /\ pc = "done"
    /\ Len(catalog.ROMAJI) = Len(ROMAJI)
    /\ youon_glyphs # <<>> /\ sokuon_glyphs # <<>> /\ complex_glyphs # <<>>
    /\ Len(jp.tables) > 1
    /\ DOMAIN CharMap = {catalog.ROMAJI[i].kana[1] : i \in DOMAIN catalog.ROMAJI}

\* C7: after a completed build every glyph name the character map maps to,
\* and every glyph name that is an input or the output of a ligature rule, is
\* in the glyph table; and a codepoint maps to the same one glyph name in
\* every subtable of the character map that has it.
C7_ReferencedGlyphsExist ==
    pc = "done" =>
        /\ \A t \in DOMAIN cmap_tbl : \A cp \in DOMAIN cmap_tbl[t].cmap :
              cmap_tbl[t].cmap[cp] \in DOMAIN glyf
        /\ \A k \in DOMAIN feature_code :
              /\ feature_code[k].by \in DOMAIN glyf
              /\ \A i \in DOMAIN feature_code[k].inputs :
                    feature_code[k].inputs[i] \in DOMAIN glyf
        /\ \A k \in DOMAIN gsub : gsub[k] \in Range(feature_code)
        /\ \A t, u \in DOMAIN cmap_tbl :
              \A cp \in DOMAIN cmap_tbl[t].cmap \cap DOMAIN cmap_tbl[u].cmap :
                  cmap_tbl[t].cmap[cp] = cmap_tbl[u].cmap[cp]

\* a completed build with compiled rules and a character map of two subtables
C7_Witness ==
    /\ pc = "done"
    /\ gsub # <<>>
    /\ Len(gsub) = Len(AllItems)
    /\ Len(cmap_tbl) = 2

\* the tops of the contoured parts of the glyphs of the table
PartTops ==
    UNION { {glyf[n].parts[i].top :
                i \in {j \in DOMAIN glyf[n].parts : glyf[n].parts[j].numberOfContours # 0}} :
            n \in DOMAIN glyf }

\* C8: after the correction step the ascent is at least the inherited ascent
\* and at least the top of every glyph with contours plus the margin of 20;
\* an inherited ascent that already reaches that bound is left as it was.
C8_AscentMonotonic ==
    pc \in {"save", "done"} =>
        /\ ascent >= jp.ascent
        /\ \A t \in PartTops : ascent >= t + 20
        /\ (\A t \in PartTops : jp.ascent >= t + 20) => ascent = jp.ascent

\* a completed build whose ascent was raised above the inherited one
C8_Witness ==
    /\ pc = "done"
    /\ ascent > jp.ascent
    /\ \E t \in PartTops : ascent = t + 20

\* C9 as stated: no font is saved in a run in which a stage has failed.
C9_NoSaveAfterAnyFailure == ~(saved /\ failed # "none")

\* C9, amended: a failure of glyph synthesis or of the ascent correction
\* aborts the build and no font is saved; a failure of ligature rule assembly
\* or compilation does not abort the build, which goes on to the later steps.
C9_AbortExceptLiga ==
    /\ failed \in {"synthesis", "ascender"} => (pc = "aborted" /\ ~saved)
    /\ pc = "aborted" => (~saved /\ failed \in {"synthesis", "ascender"})
    /\ failed = "liga" => pc \in {"ascender", "save", "done"}
    /\ pc = "done" => saved

\* glyph synthesis has failed after glyphs were stored: nothing is saved
C9_Witness ==
    /\ failed = "synthesis"
    /\ pc = "aborted"
    /\ Cardinality(DOMAIN glyf) > 1
    /\ ~saved

-----------------------------------------------------------------------------
(* Two runs on the same inputs *)

\* a second run on the inputs of a finished one has finished as well
BothRunsDone == earlier_run # NoEarlierRun /\ pc = "done"

\* both runs gave every single-character entry the same glyph name
SameSingleNames == cmap_map = earlier_run[1].cmap_map

\* both runs gave every combination the same glyph name
SameComboNames == AllItems = earlier_run[1].items

\* C11: two runs of build_font on the same source fonts, catalog and
\* configuration give every catalog entry the same glyph name, and so build
\* the same glyph order, the same character map and the same liga rule set.
C11_TwoRunsSameOutput ==
    BothRunsDone =>
        /\ SameSingleNames
        /\ SameComboNames
        /\ glyphOrder = earlier_run[1].glyphOrder
        /\ cmap_tbl = earlier_run[1].cmap
        /\ feature_code = earlier_run[1].rules

\* the part of the output that no hash() value enters: the names of the
\* single-character entries and the character map
TwoRunsSameCharMap ==
    BothRunsDone => SameSingleNames /\ cmap_tbl = earlier_run[1].cmap

====
